---- MODULE Spec2Model ----
(***************************************************************************)
(* Model of the multi-cluster operations layer of KRATOS:                  *)
(*   src/agents/k8s_agent.py   K8sAgent (registry, switch, operations)     *)
(*   src/ui/dashboard.py       the threads that invoke it                  *)
(*                                                                         *)
(* Spec            one caller at a time invokes K8sAgent.execute_function.  *)
(* SpecLive        the same with fairness, and API calls that may never     *)
(*                 be answered.                                             *)
(* SpecWrapper     one caller at a time invokes MultiClusterMCPWrapper      *)
(*                 (src/scripts/aks_mcp_wrapper.py).                        *)
(* SpecConcurrent  callers on separate threads invoke it on the one shared  *)
(*                 agent, interleaved statement by statement.               *)
(* SpecHealth      get_cluster_health on every pair of API responses.       *)
(* SpecApply       apply_yaml on every manifest and cluster, applied twice. *)
(* SpecRestart     restart_deployment on every cluster content, twice.      *)
(* SpecPods        get_pods' container list on every listed pod.            *)
(* SpecHistory     get_recent_history on every history and limit.           *)
(* SpecController  src/orchestrator/controller.py: a task whose chat calls  *)
(*                 the agent through the wrappers, and shutdown.            *)
(***************************************************************************)
EXTENDS Integers, Sequences, FiniteSets, TLC

\* Python's None, for a cluster name that is absent.
None == "None"

\* Context names a kubeconfig may hold, and a name no kubeconfig holds.
Contexts == <<"dev", "prod">>
ClusterNames == {Contexts[i] : i \in 1..Len(Contexts)}
Ghost == "ghost"

\* The threads that run invocations (dashboard.py starts one per task and
\* stops waiting for it after 120 s, so two can be in flight).
Threads == {"t1", "t2"}
Main == "t1"

VARIABLES
    kubeconfig,       \* environment: [contexts: Seq(name), active: name]
    loaded,           \* kubernetes.client default configuration: the context last loaded
    clusters,         \* K8sAgent.clusters: Seq([name, active]) in insertion order
    current_cluster,  \* K8sAgent.current_cluster
    initialized,      \* K8sAgent.initialized
    pc,               \* per thread: position in the invocation
    req,              \* per thread: [fn, cluster, replicas] of the invocation
    phase,            \* per thread: 1, 2 = the nested call get_cluster_health is in
    api_ctx,          \* per thread: the context the thread's API client object is bound to
    probed,           \* per thread: "no", "ok", "failed": switch_cluster's version probe
    apiFailed,        \* per thread: an API call of the invocation raised (other than a handled 409)
    lastCall,         \* per thread: [ctx, cur] at the invocation's latest API call
    outcome,          \* per thread: status the operation is about to return
    result,           \* per thread: the dict execute_function returned
    nodeResp,         \* SpecHealth: what list_node answers
    podResp,          \* SpecHealth: what list_namespaced_pod("kube-system") answers
    hpc,              \* SpecHealth: position in get_cluster_health
    node_metrics,     \* SpecHealth: get_cluster_health's local node_metrics
    system_pods,      \* SpecHealth: get_cluster_health's local system_pods
    health,           \* SpecHealth: the dict get_cluster_health returned
    manifest,         \* SpecApply: the documents of yaml_content, in order
    store0,           \* SpecApply: the resources in the cluster before the first apply
    store,            \* SpecApply: the resources in the cluster
    apc,              \* SpecApply: position in apply_yaml
    adoc,             \* SpecApply: index of the document the loop is at
    results,          \* SpecApply: apply_yaml's local results
    attempts,         \* SpecApply: the API calls of the running apply, with their answers
    applied,          \* SpecApply: the dicts apply_yaml returned, one per call
    conversation_history,  \* KratosController.conversation_history
    running_tasks,    \* KratosController.running_tasks: the status of each task, by id
    tpc,              \* SpecController: position in process_user_message
    task,             \* SpecController: process_user_message's task_id
    reply,            \* SpecController: what sync_wrapper returned last
    shut,             \* SpecController: shutdown() has cleared the agents
    exported,         \* the dict get_agent_status() returned last
    dstore,           \* SpecRestart: the deployments in the cluster, by name
    clock,            \* SpecRestart: the time datetime.utcnow() answers
    rpc,              \* SpecRestart: position in restart_deployment
    rname,            \* SpecRestart: restart_deployment's deployment_name
    body,             \* SpecRestart: restart_deployment's local deployment
    patches,          \* SpecRestart: the bodies of the invocation's patch calls
    restarted,        \* SpecRestart: the dict restart_deployment returned
    pod,              \* SpecPods: a pod list_namespaced_pod answered
    pod_info,         \* SpecPods: get_pods' pod_info["containers"] for that pod
    limit,            \* SpecHistory: get_recent_history's limit
    recent            \* SpecHistory: the list get_recent_history returned

agentVars == <<kubeconfig, loaded, clusters, current_cluster, initialized>>
threadVars == <<pc, req, phase, api_ctx, probed, apiFailed, lastCall, outcome,
                result>>
healthVars == <<nodeResp, podResp, hpc, node_metrics, system_pods, health>>
applyVars == <<manifest, store0, store, apc, adoc, results, attempts, applied>>
controllerVars == <<conversation_history, running_tasks, tpc, task, reply, shut,
                    exported>>
restartVars == <<dstore, clock, rpc, rname, body, patches, restarted>>
podVars == <<pod, pod_info>>
recentVars == <<limit, recent>>
moreVars == <<restartVars, podVars, recentVars>>
sideVars == <<healthVars, applyVars, controllerVars, moreVars>>
vars == <<agentVars, threadVars, sideVars>>

----------------------------------------------------------------------------
\* Helpers

Range(s) == {s[i] : i \in 1..Len(s)}

\* What config.list_kube_config_contexts() can answer: the contexts in file
\* order and the current one, which is one of them; an empty file has none.
KubeConfigs ==
    {[contexts |-> <<>>, active |-> None]} \cup
    {[contexts |-> Contexts, active |-> a] : a \in ClusterNames}

----------------------------------------------------------------------------
\* K8sAgent: the catalog and the registry

ResourceOps ==
    {"get_pods", "restart_deployment", "apply_yaml", "get_node_metrics",
     "get_cluster_health", "scale_deployment", "get_logs"}

\* function_map with a handler bound to a name the catalog does not hold.
function_mapWithUnknown ==
    {"list_clusters", "switch_cluster", "get_pods", "restart_deployment",
     "apply_yaml", "get_node_metrics", "get_cluster_health", "scale_deployment",
     "get_logs", "no_such_function"}

\* function_map without the handler of get_logs.
function_mapWithoutLogs ==
    {"list_clusters", "switch_cluster"} \cup (ResourceOps \ {"get_logs"})

\* execute_function's function_map.
function_map == {"list_clusters", "switch_cluster"} \cup ResourceOps

\* get_function_definitions(): the names of the catalog.
CatalogNames ==
    {"list_clusters", "switch_cluster", "get_pods", "restart_deployment",
     "apply_yaml", "get_node_metrics", "get_cluster_health", "scale_deployment",
     "get_logs"}

\* get_function_definitions(): the "required" list of each catalog entry.
Required(fn) ==
    CASE fn = "switch_cluster" -> {"cluster_name"}
      [] fn = "restart_deployment" -> {"deployment_name"}
      [] fn = "apply_yaml" -> {"yaml_content"}
      [] fn = "scale_deployment" -> {"deployment_name", "replicas"}
      [] fn = "get_logs" -> {"pod_name"}
      [] OTHER -> {}

\* SignatureRequired with every parameter given a default.
SignatureAllOptional(fn) == {}

\* The parameters without a default in each handler's "async def" line.
SignatureRequired(fn) ==
    CASE fn = "switch_cluster" -> {"cluster_name"}
      [] fn = "restart_deployment" -> {"deployment_name"}
      [] fn = "apply_yaml" -> {"yaml_content"}
      [] fn = "scale_deployment" -> {"deployment_name", "replicas"}
      [] fn = "get_logs" -> {"pod_name"}
      [] OTHER -> {}

\* A call with every required parameter and no parameter the handler lacks.
Req(fn, cluster, replicas) ==
    [fn |-> fn, cluster |-> cluster, replicas |-> replicas,
     missing |-> None, unexpected |-> FALSE]

\* The well-formed invocations callers make: an operation name, the cluster
\* (switch_cluster's cluster_name, an operation's optional cluster) and
\* scale_deployment's replicas.
WellFormed ==
    {Req("list_clusters", None, 0), Req("no_such_function", None, 0)} \cup
    {Req("switch_cluster", c, 0) : c \in ClusterNames \cup {Ghost}} \cup
    {Req(f, c, 0) : f \in ResourceOps \ {"scale_deployment"},
                    c \in ClusterNames \cup {Ghost, None}} \cup
    {Req("scale_deployment", c, n) : c \in ClusterNames \cup {Ghost, None},
                                     n \in {-1, 1}}

\* The malformed ones: a catalog operation without one of the parameters its
\* catalog entry requires, or with a keyword its handler does not take.
Malformed ==
    UNION {{[Req(f, c, 1) EXCEPT !.missing = m] :
                c \in ClusterNames \cup {None}, m \in Required(f)} :
            f \in CatalogNames \ {"switch_cluster"}} \cup
    {[Req("switch_cluster", None, 0) EXCEPT !.missing = "cluster_name"]} \cup
    {[Req(f, c, 0) EXCEPT !.unexpected = TRUE] :
        f \in {"list_clusters", "get_pods", "no_such_function"},
        c \in ClusterNames \cup {None}}

Requests == WellFormed \cup Malformed

\* The invocations of the concurrent specification: the switch, the listing,
\* an operation with one API call and the operation built from two others.
ConcurrentRequests ==
    {r \in WellFormed :
        r.fn \in {"list_clusters", "switch_cluster", "get_pods", "get_cluster_health"}}

\* list(self.clusters.keys())
ClusterKeys == [i \in 1..Len(clusters) |-> clusters[i].name]

NoCall == [ctx |-> None, cur |-> None]
NoRequest == Req(None, None, 0)
NoResult ==
    [status |-> None, message |-> None, items |-> <<>>, cluster |-> None,
     function |-> None, timestamp |-> FALSE]

\* list_clusters: one entry per registered cluster, active iff it is current_cluster.
ListClusters ==
    [i \in 1..Len(clusters) |->
        [name |-> clusters[i].name, active |-> clusters[i].name = current_cluster]]

\* The dicts the agent returns, by the fields the claims read: status, the kind
\* of message, the names a message lists, and the 'cluster' field. The dict a
\* method builds has no 'function' and no 'timestamp' (a dict has one or not).
Result(status, message, items, cluster) ==
    [status |-> status, message |-> message, items |-> items, cluster |-> cluster,
     function |-> None, timestamp |-> FALSE]

\* execute_function after the method returned: result["function"] =
\* function_name and result["timestamp"] = datetime.utcnow().isoformat().
Metadata(fn, r) == [r EXCEPT !.function = fn, !.timestamp = TRUE]

\* switch_cluster's answer for a name that is not registered.
NotFoundResult == Result("error", "not_found", ClusterKeys, None)

\* The invocation of thread t has assigned current_cluster (the probe follows
\* the assignment at once).
Switched(t) == probed[t] # "no" \/ pc[t] = "sw_probe"

\* The invocation of thread t has issued a cluster API call.
Called(t) == lastCall[t] # NoCall

----------------------------------------------------------------------------
\* K8sAgent.initialize

\* The registry built from the kubeconfig: one entry per context, flagged
\* active iff it is the kubeconfig's current context.
Registry(k) ==
    [i \in 1..Len(k.contexts) |->
        [name |-> k.contexts[i], active |-> k.contexts[i] = k.active]]

\* initialize(): no contexts -> return False and stay uninitialized; otherwise
\* fill the registry, set current_cluster, try to load the context (a failure
\* is only logged) and set initialized.
Initialize ==
    /\ ~initialized
    /\ IF kubeconfig.contexts = <<>>
       THEN UNCHANGED <<clusters, current_cluster, initialized, loaded>>
       ELSE /\ clusters' = Registry(kubeconfig)
            /\ current_cluster' = kubeconfig.active
            /\ initialized' = TRUE
            /\ \E ok \in BOOLEAN :
                  loaded' = IF ok THEN kubeconfig.active ELSE loaded
    /\ UNCHANGED <<kubeconfig, threadVars, sideVars>>

----------------------------------------------------------------------------
\* K8sAgent.execute_function and the operations, one thread t at a time

\* execute_function returns r to its caller; the locals are gone.
Answers(t, r) ==
    /\ result' = [result EXCEPT ![t] = r]
    /\ pc' = [pc EXCEPT ![t] = "done"]
    /\ phase' = [phase EXCEPT ![t] = 1]
    /\ api_ctx' = [api_ctx EXCEPT ![t] = None]
    /\ outcome' = [outcome EXCEPT ![t] = None]

\* The method returns r to execute_function, which adds the metadata and
\* returns it to its caller.
Finish(t, r) == Answers(t, Metadata(req[t].fn, r))

\* The thread moves on inside the method.
Goto(t, n) ==
    /\ pc' = [pc EXCEPT ![t] = n.pc]
    /\ phase' = [phase EXCEPT ![t] = n.phase]
    /\ outcome' = [outcome EXCEPT ![t] = n.outcome]

Step(t, p) == [pc |-> p, phase |-> phase[t], outcome |-> outcome[t]]

Ends(t, status) == [pc |-> "ret", phase |-> phase[t], outcome |-> status]

\* Where execute_function's call of the method starts.
Entry(fn) ==
    CASE fn = "list_clusters" -> "list"
      [] fn = "switch_cluster" -> "sw_check"
      [] OTHER -> "check"

\* NotInitialized with the test dropped.
NotInitializedNever == FALSE

\* "if not self.initialized"
NotInitialized == ~initialized

\* Calling the handler with **kwargs raises TypeError when a parameter without
\* a default is missing or a keyword is not a parameter of the handler.
BindError(r) == r.unexpected \/ r.missing \in SignatureRequired(r.fn)

\* BindFailure with the TypeError leaving execute_function.
BindFailurePropagates(r) == Result("fault", "type_error", <<>>, None)

\* execute_function's except clause on that TypeError: the message is str(e),
\* which names the missing parameter or the unexpected keyword; the dict has
\* 'agent' and 'function' and no 'timestamp'.
BindFailure(r) ==
    [(IF r.unexpected
      THEN Result("error", "unexpected_argument", <<>>, None)
      ELSE Result("error", "missing_argument", <<r.missing>>, None))
     EXCEPT !.function = r.fn]

\* execute_function(function_name, **kwargs) up to the call of the method:
\* an uninitialized agent and an unknown name answer an error at once, and so
\* does a call the handler's parameters do not bind.
Call(t, R) ==
    /\ pc[t] \in {"idle", "done"}
    /\ \E r \in R :
        /\ req' = [req EXCEPT ![t] = r]
        /\ IF NotInitialized
           THEN Answers(t, Result("error", "not_initialized", <<>>, None))
           ELSE IF r.fn \notin function_map
           THEN Answers(t, Result("error", "unknown_function", <<>>, None))
           ELSE IF BindError(r)
           THEN Answers(t, BindFailure(r))
           ELSE /\ pc' = [pc EXCEPT ![t] = Entry(r.fn)]
                /\ result' = [result EXCEPT ![t] = NoResult]
                /\ phase' = [phase EXCEPT ![t] = 1]
                /\ api_ctx' = [api_ctx EXCEPT ![t] = None]
                /\ outcome' = [outcome EXCEPT ![t] = None]
    /\ probed' = [probed EXCEPT ![t] = "no"]
    /\ apiFailed' = [apiFailed EXCEPT ![t] = FALSE]
    /\ lastCall' = [lastCall EXCEPT ![t] = NoCall]
    /\ UNCHANGED <<agentVars, sideVars>>

\* list_clusters(): the names whose entry it reports active, in registry order.
ListClustersOp(t) ==
    /\ pc[t] = "list"
    /\ Finish(t, Result("success", "clusters",
                        SelectSeq(ClusterKeys, LAMBDA n : n = current_cluster), None))
    /\ UNCHANGED <<agentVars, sideVars, req, probed, apiFailed, lastCall>>

\* Check with the requested cluster made the active one on the spot.
CheckAdoptsRequested(t) ==
    /\ pc[t] = "check"
    /\ pc' = [pc EXCEPT ![t] = "load"]
    /\ current_cluster' =
          IF req[t].cluster # None THEN req[t].cluster ELSE current_cluster
    /\ UNCHANGED <<kubeconfig, loaded, clusters, initialized, sideVars, req, phase,
                   api_ctx, probed, apiFailed, lastCall, outcome, result>>

\* Check with the comparison to current_cluster dropped.
CheckAlwaysSwitches(t) ==
    /\ pc[t] = "check"
    /\ pc' = [pc EXCEPT ![t] = IF req[t].cluster # None THEN "sw_check" ELSE "load"]
    /\ UNCHANGED <<agentVars, sideVars, req, phase, api_ctx, probed, apiFailed,
                   lastCall, outcome, result>>

\* An operation's "if cluster and cluster != self.current_cluster": switch, or
\* go on to load the context of current_cluster.
Check(t) ==
    /\ pc[t] = "check"
    /\ pc' = [pc EXCEPT ![t] =
                IF req[t].cluster # None /\ req[t].cluster # current_cluster
                THEN "sw_check" ELSE "load"]
    /\ UNCHANGED <<agentVars, sideVars, req, phase, api_ctx, probed, apiFailed,
                   lastCall, outcome, result>>

\* SwCheck with the assignment moved before the membership test.
SwCheckAssignsFirst(t) ==
    /\ pc[t] = "sw_check"
    /\ current_cluster' = req[t].cluster
    /\ IF req[t].cluster \notin Range(ClusterKeys)
       THEN Finish(t, NotFoundResult)
       ELSE /\ pc' = [pc EXCEPT ![t] = "sw_load"]
            /\ UNCHANGED <<result, phase, api_ctx, outcome>>
    /\ UNCHANGED <<kubeconfig, loaded, clusters, initialized, sideVars, req,
                   probed, apiFailed, lastCall>>

\* SwCheck with the operation going on after the refused switch.
SwCheckOperationGoesOn(t) ==
    /\ pc[t] = "sw_check"
    /\ IF req[t].cluster \notin Range(ClusterKeys)
       THEN IF req[t].fn = "switch_cluster"
            THEN Finish(t, NotFoundResult)
            ELSE /\ pc' = [pc EXCEPT ![t] = "load"]
                 /\ UNCHANGED <<result, phase, api_ctx, outcome>>
       ELSE /\ pc' = [pc EXCEPT ![t] = "sw_load"]
            /\ UNCHANGED <<result, phase, api_ctx, outcome>>
    /\ UNCHANGED <<agentVars, sideVars, req, probed, apiFailed, lastCall>>

\* switch_cluster: "if cluster_name not in self.clusters" returns the error
\* (an operation that asked for the switch returns it unchanged).
SwCheck(t) ==
    /\ pc[t] = "sw_check"
    /\ IF req[t].cluster \notin Range(ClusterKeys)
       THEN Finish(t, NotFoundResult)
       ELSE /\ pc' = [pc EXCEPT ![t] = "sw_load"]
            /\ UNCHANGED <<result, phase, api_ctx, outcome>>
    /\ UNCHANGED <<agentVars, sideVars, req, probed, apiFailed, lastCall>>

\* SwLoad with current_cluster cleared when the load raises.
SwLoadFailureClears(t) ==
    /\ pc[t] = "sw_load"
    /\ \E ok \in BOOLEAN :
        IF ok
        THEN /\ loaded' = req[t].cluster
             /\ pc' = [pc EXCEPT ![t] = "sw_assign"]
             /\ UNCHANGED <<result, phase, api_ctx, outcome, current_cluster>>
        ELSE /\ Finish(t, Result("error", "exception", <<>>, None))
             /\ current_cluster' = None
             /\ UNCHANGED loaded
    /\ UNCHANGED <<kubeconfig, clusters, initialized, sideVars,
                   req, probed, apiFailed, lastCall>>

\* SwLoad with the context never loaded.
SwLoadSkipsLoading(t) ==
    /\ pc[t] = "sw_load"
    /\ pc' = [pc EXCEPT ![t] = "sw_assign"]
    /\ UNCHANGED <<agentVars, sideVars, req, probed, apiFailed, lastCall,
                   result, phase, api_ctx, outcome>>

\* switch_cluster: config.load_kube_config(context=cluster_name); when it
\* raises, the outer except returns an error and nothing was assigned.
SwLoad(t) ==
    /\ pc[t] = "sw_load"
    /\ \E ok \in BOOLEAN :
        IF ok
        THEN /\ loaded' = req[t].cluster
             /\ pc' = [pc EXCEPT ![t] = "sw_assign"]
             /\ UNCHANGED <<result, phase, api_ctx, outcome>>
        ELSE /\ Finish(t, Result("error", "exception", <<>>, None))
             /\ UNCHANGED loaded
    /\ UNCHANGED <<kubeconfig, clusters, current_cluster, initialized, sideVars,
                   req, probed, apiFailed, lastCall>>

\* SwAssign with the cluster switched to moved to the front of the registry.
SwAssignMovesToFront(t) ==
    /\ pc[t] = "sw_assign"
    /\ current_cluster' = req[t].cluster
    /\ clusters' = SelectSeq(clusters, LAMBDA c : c.name = req[t].cluster) \o
                   SelectSeq(clusters, LAMBDA c : c.name # req[t].cluster)
    /\ pc' = [pc EXCEPT ![t] = "sw_probe"]
    /\ UNCHANGED <<kubeconfig, loaded, initialized, sideVars, req,
                   phase, api_ctx, probed, apiFailed, lastCall, outcome, result>>

\* switch_cluster: self.current_cluster = cluster_name
SwAssign(t) ==
    /\ pc[t] = "sw_assign"
    /\ current_cluster' = req[t].cluster
    /\ pc' = [pc EXCEPT ![t] = "sw_probe"]
    /\ UNCHANGED <<kubeconfig, loaded, clusters, initialized, sideVars, req,
                   phase, api_ctx, probed, apiFailed, lastCall, outcome, result>>

\* SwitchResult with a failed probe answered by an error.
SwitchResultFailsWithProbe(ok, cluster_name) ==
    IF ok
    THEN Result("success", "switched", <<>>, cluster_name)
    ELSE Result("error", "exception", <<>>, None)

\* switch_cluster's return after the probe: the same dict of status, message
\* and cluster whether the probe answered (ok) or raised.
SwitchResult(ok, cluster_name) == Result("success", "switched", <<>>, cluster_name)

\* switch_cluster: the version probe, whose failure is only logged, and the
\* success return; the operation that asked for the switch goes on.
SwProbe(t) ==
    /\ pc[t] = "sw_probe"
    /\ \E ok \in BOOLEAN :
        /\ probed' = [probed EXCEPT ![t] = IF ok THEN "ok" ELSE "failed"]
        /\ IF req[t].fn = "switch_cluster"
           THEN Finish(t, SwitchResult(ok, req[t].cluster))
           ELSE /\ pc' = [pc EXCEPT ![t] = "load"]
                /\ UNCHANGED <<result, phase, api_ctx, outcome>>
    /\ UNCHANGED <<agentVars, sideVars, req, apiFailed, lastCall>>

\* Where an operation goes when a step raised: get_cluster_health's nested
\* get_node_metrics and get_pods catch it themselves and health goes on, to
\* return success; every other operation's except clause returns an error.
OnFailure(t) ==
    IF req[t].fn = "get_cluster_health"
    THEN IF phase[t] = 1
         THEN [pc |-> "load", phase |-> 2, outcome |-> outcome[t]]
         ELSE Ends(t, "success")
    ELSE Ends(t, "error")

\* Where an operation goes when its first API call answered.
OnSuccess(t) ==
    CASE req[t].fn = "get_cluster_health" ->
            IF phase[t] = 1
            THEN [pc |-> "load", phase |-> 2, outcome |-> outcome[t]]
            ELSE Ends(t, "success")
      [] req[t].fn = "restart_deployment" -> Step(t, "call2")
      [] req[t].fn = "apply_yaml" -> Step(t, "docs")
      [] OTHER -> Ends(t, "success")

\* "config.load_kube_config(context=self.current_cluster)" of an operation
\* (of get_node_metrics and of get_pods inside get_cluster_health).
Load(t) ==
    /\ pc[t] = "load"
    /\ \E ok \in BOOLEAN :
        IF ok
        THEN /\ loaded' = current_cluster
             /\ Goto(t, Step(t, IF req[t].fn = "apply_yaml" THEN "docs" ELSE "client"))
        ELSE /\ Goto(t, OnFailure(t))
             /\ UNCHANGED loaded
    /\ UNCHANGED <<kubeconfig, clusters, current_cluster, initialized, sideVars,
                   req, api_ctx, probed, apiFailed, lastCall, result>>

\* apply_yaml's "for doc in docs": the next document is a Deployment or a
\* Service, or the manifest has ended (a document that is skipped changes nothing).
Docs(t) ==
    /\ pc[t] = "docs"
    /\ \E more \in BOOLEAN :
        Goto(t, IF more THEN Step(t, "client") ELSE Ends(t, "success"))
    /\ UNCHANGED <<agentVars, sideVars, req, api_ctx, probed, apiFailed,
                   lastCall, result>>

\* client.CoreV1Api() / client.AppsV1Api(): the client object copies the
\* default configuration, that is the context loaded last by any thread.
Client(t) ==
    /\ pc[t] = "client"
    /\ api_ctx' = [api_ctx EXCEPT ![t] = loaded]
    /\ pc' = [pc EXCEPT ![t] = "call"]
    /\ UNCHANGED <<agentVars, sideVars, req, phase, probed, apiFailed, lastCall,
                   outcome, result>>

\* What is recorded of an API call: the cluster it goes to (the client's
\* context) and the active cluster at that moment.
Issue(t) ==
    lastCall' = [lastCall EXCEPT ![t] = [ctx |-> api_ctx[t], cur |-> current_cluster]]

\* The call is get_pods' list_namespaced_pod (get_cluster_health's second).
ListsPods(t) ==
    \/ req[t].fn = "get_pods"
    \/ req[t].fn = "get_cluster_health" /\ phase[t] = 2

\* Where get_pods goes on a 404: it returns its namespace-not-found dict from
\* inside the try body (to get_cluster_health, which goes on).
OnMissing(t) ==
    IF req[t].fn = "get_pods" THEN Ends(t, "missing") ELSE OnFailure(t)

\* The operation's first API call (list, read, create, patch scale, read log):
\* it answers, raises, (apply_yaml's create) raises 409 already-exists, or
\* (get_pods' list) raises 404.
ApiCall(t) ==
    /\ pc[t] = "call"
    /\ Issue(t)
    /\ \E answer \in {"ok", "fail"} \cup
                     (IF req[t].fn = "apply_yaml" THEN {"conflict"} ELSE {}) \cup
                     (IF ListsPods(t) THEN {"missing"} ELSE {}) :
        CASE answer = "ok" ->
                /\ Goto(t, OnSuccess(t))
                /\ UNCHANGED apiFailed
          [] answer = "fail" ->
                /\ Goto(t, OnFailure(t))
                /\ apiFailed' = [apiFailed EXCEPT ![t] = TRUE]
          [] answer = "missing" ->
                /\ Goto(t, OnMissing(t))
                /\ apiFailed' = [apiFailed EXCEPT ![t] = TRUE]
          [] answer = "conflict" ->
                /\ Goto(t, Step(t, "call2"))
                /\ UNCHANGED apiFailed
    /\ UNCHANGED <<agentVars, sideVars, req, api_ctx, probed, result>>

\* The patch that follows: restart_deployment's update, apply_yaml's update of
\* a resource that already exists; it uses the same client object.
ApiCall2(t) ==
    /\ pc[t] = "call2"
    /\ Issue(t)
    /\ \E ok \in BOOLEAN :
        IF ok
        THEN /\ Goto(t, IF req[t].fn = "apply_yaml"
                        THEN Step(t, "docs") ELSE Ends(t, "success"))
             /\ UNCHANGED apiFailed
        ELSE /\ Goto(t, Ends(t, "error"))
             /\ apiFailed' = [apiFailed EXCEPT ![t] = TRUE]
    /\ UNCHANGED <<agentVars, sideVars, req, api_ctx, probed, result>>

\* The 'cluster' field of the dict an operation returns ('cluster_name' for
\* get_cluster_health): self.current_cluster, read when the dict is built;
\* get_pods' error dict has "cluster or self.current_cluster".
ResultCluster(t) ==
    IF req[t].fn = "get_pods" /\ outcome[t] = "error" /\ req[t].cluster # None
    THEN req[t].cluster
    ELSE current_cluster

\* Return with the active cluster put back to the kubeconfig's own.
ReturnRestores(t) ==
    /\ pc[t] = "ret"
    /\ Finish(t, Result(outcome[t], "ok", <<>>, current_cluster))
    /\ current_cluster' = kubeconfig.active
    /\ UNCHANGED <<kubeconfig, loaded, clusters, initialized, sideVars, req,
                   probed, apiFailed, lastCall>>

\* The operation's return statement (of the try body or of the except clause);
\* get_pods' namespace-not-found dict has no 'cluster'.
Return(t) ==
    /\ pc[t] = "ret"
    /\ Finish(t, CASE outcome[t] = "success" ->
                        Result("success", "ok", <<>>, ResultCluster(t))
                   [] outcome[t] = "missing" ->
                        Result("error", "namespace_not_found", <<>>, None)
                   [] OTHER ->
                        Result("error", "exception", <<>>, ResultCluster(t)))
    /\ UNCHANGED <<agentVars, sideVars, req, probed, apiFailed, lastCall>>

----------------------------------------------------------------------------
\* The status export

\* K8sAgent.get_status(): initialized, current_cluster and the registry's keys.
get_status ==
    [initialized |-> initialized, current_cluster |-> current_cluster,
     available_clusters |-> ClusterKeys]

\* get_agent_status with every stored task counted as running.
get_agent_statusCountsAll ==
    [agents |-> IF shut THEN <<>> ELSE <<get_status>>,
     running_tasks |-> Len(running_tasks),
     total_conversations |-> Len(conversation_history)]

\* KratosController.get_agent_status(): the status of each agent it holds, the
\* number of tasks whose status is "processing" and the length of the history.
get_agent_status ==
    [agents |-> IF shut THEN <<>> ELSE <<get_status>>,
     running_tasks |-> Len(SelectSeq(running_tasks, LAMBDA st : st = "processing")),
     total_conversations |-> Len(conversation_history)]

\* A status call (the CLI's "status", the dashboard's sidebar), at any moment.
GetAgentStatus ==
    /\ exported' = get_agent_status
    /\ UNCHANGED <<agentVars, moreVars, threadVars, healthVars, applyVars,
                   conversation_history, running_tasks, tpc, task, reply, shut>>

----------------------------------------------------------------------------
\* The specifications: the agent after construction, and callers invoking it

HealthIdle ==
    /\ nodeResp = [raised |-> FALSE, items |-> <<>>]
    /\ podResp = [raised |-> FALSE, items |-> <<>>]
    /\ hpc = "off"
    /\ node_metrics = <<>>
    /\ system_pods = <<>>
    /\ health = <<>>

\* apply_yaml is not running.
ApplyIdle ==
    /\ manifest = <<>>
    /\ store0 = {}
    /\ store = {}
    /\ apc = "off"
    /\ adoc = 1
    /\ results = <<>>
    /\ attempts = <<>>
    /\ applied = <<>>

\* The deployments restart_deployment is asked for.
DeploymentNames == {"web", "db"}

\* spec.template.metadata.annotations of a deployment: None, or a dict that
\* may hold the restartedAt key (restartedAt is its time, -1 without the key)
\* and may hold other keys.
NoAnnotations == [isNone |-> TRUE, restartedAt |-> -1, other |-> FALSE]
EmptyAnnotations == [isNone |-> FALSE, restartedAt |-> -1, other |-> FALSE]

\* No deployment of that name.
Absent == [exists |-> FALSE, annotations |-> NoAnnotations]

\* restart_deployment has not returned.
NoRestart == [status |-> None, deployment |-> None]

\* pod.status.container_statuses: None, or a list of statuses.
NoStatuses == [isNone |-> TRUE, items |-> <<>>]
NoPod == [containers |-> <<>>, container_statuses |-> NoStatuses]

\* get_pods has not built the pod's containers.
NoPodInfo == [built |-> FALSE, raised |-> FALSE, containers |-> <<>>]

\* restart_deployment, the pod listing and get_recent_history are not running.
MoreIdle ==
    /\ dstore = [n \in DeploymentNames |-> Absent]
    /\ clock = 1
    /\ rpc = "off"
    /\ rname = None
    /\ body = Absent
    /\ patches = <<>>
    /\ restarted = NoRestart
    /\ pod = NoPod
    /\ pod_info = NoPodInfo
    /\ limit = -1
    /\ recent = <<>>

\* sync_wrapper has not returned yet.
NoReply == [type |-> None, text |-> None]

\* No status was exported yet.
NoExport == [agents |-> <<>>, running_tasks |-> 0, total_conversations |-> 0]

\* KratosController.__init__
ControllerIdle ==
    /\ conversation_history = <<>>
    /\ running_tasks = <<>>
    /\ tpc = "idle"
    /\ task = 0
    /\ reply = NoReply
    /\ shut = FALSE
    /\ exported = NoExport

Init ==
    /\ kubeconfig \in KubeConfigs
    /\ loaded = None
    /\ clusters = <<>>
    /\ current_cluster = None
    /\ initialized = FALSE
    /\ pc = [t \in Threads |-> "idle"]
    /\ req = [t \in Threads |-> NoRequest]
    /\ phase = [t \in Threads |-> 1]
    /\ api_ctx = [t \in Threads |-> None]
    /\ probed = [t \in Threads |-> "no"]
    /\ apiFailed = [t \in Threads |-> FALSE]
    /\ lastCall = [t \in Threads |-> NoCall]
    /\ outcome = [t \in Threads |-> None]
    /\ result = [t \in Threads |-> NoResult]
    /\ HealthIdle
    /\ ApplyIdle
    /\ ControllerIdle
    /\ MoreIdle

\* One caller at a time, every invocation: no two invocations overlap.
Next ==
    \/ Initialize
    \/ Call(Main, Requests)
    \/ ListClustersOp(Main)
    \/ Check(Main)
    \/ SwCheck(Main)
    \/ SwLoad(Main)
    \/ SwAssign(Main)
    \/ SwProbe(Main)
    \/ Load(Main)
    \/ Docs(Main)
    \/ Client(Main)
    \/ ApiCall(Main)
    \/ ApiCall2(Main)
    \/ Return(Main)
    \/ GetAgentStatus

Spec == Init /\ [][Next]_vars

\* The operation's API call is issued and the cluster never answers: the call
\* is made without a request timeout, so the thread waits in it.
ApiSilent(t) ==
    /\ pc[t] = "call"
    /\ Issue(t)
    /\ pc' = [pc EXCEPT ![t] = "wait"]
    /\ UNCHANGED <<agentVars, sideVars, req, phase, api_ctx, probed, apiFailed,
                   outcome, result>>

\* The invocations of the specification with fairness: every one but
\* apply_yaml, whose loop is as long as its manifest.
LiveRequests == {r \in Requests : r.fn # "apply_yaml"}

\* The steps a running invocation of thread t takes by itself.
Progress(t) ==
    \/ ListClustersOp(t)
    \/ Check(t)
    \/ SwCheck(t)
    \/ SwLoad(t)
    \/ SwAssign(t)
    \/ SwProbe(t)
    \/ Load(t)
    \/ Client(t)
    \/ ApiCall(t)
    \/ ApiCall2(t)
    \/ Return(t)
    \/ ApiSilent(t)

NextLive ==
    \/ Initialize
    \/ Call(Main, LiveRequests)
    \/ Progress(Main)

\* A coroutine that can take a step takes one: the event loop that runs the
\* invocation has nothing else to run.
SpecLive == Init /\ [][NextLive]_vars /\ WF_vars(Progress(Main))

----------------------------------------------------------------------------
\* MultiClusterMCPWrapper (src/scripts/aks_mcp_wrapper.py): the same registry
\* and switch, and operations that build their client without loading a context

\* MultiClusterMCPWrapper.initialize(): fill the registry and set
\* current_cluster; it probes with a client but never calls load_kube_config.
\* "initialized" stands for its having returned True.
McpInitialize ==
    /\ ~initialized
    /\ kubeconfig.contexts # <<>>
    /\ clusters' = Registry(kubeconfig)
    /\ current_cluster' = kubeconfig.active
    /\ initialized' = TRUE
    /\ UNCHANGED <<kubeconfig, loaded, threadVars, sideVars>>

\* The calls made on the wrapper: get_pods with or without a cluster, and
\* switch_cluster.
McpRequests ==
    {Req("get_pods", c, 0) : c \in ClusterNames \cup {Ghost, None}} \cup
    {Req("switch_cluster", c, 0) : c \in ClusterNames \cup {Ghost}}

\* What the wrapper's get_pods returns: a list, empty on every failure.
PodList == Result("list", "pods", <<>>, None)

\* The wrapper's method returns r.
McpAnswers(t, r) ==
    Answers(t, IF req[t].fn = "get_pods" THEN PodList ELSE r)

\* A method of the initialized wrapper is called.
McpCall(t) ==
    /\ initialized
    /\ pc[t] \in {"idle", "done"}
    /\ \E r \in McpRequests :
        /\ req' = [req EXCEPT ![t] = r]
        /\ pc' = [pc EXCEPT ![t] =
                    IF r.fn = "switch_cluster" THEN "mcp_sw_check" ELSE "mcp_check"]
    /\ result' = [result EXCEPT ![t] = NoResult]
    /\ probed' = [probed EXCEPT ![t] = "no"]
    /\ apiFailed' = [apiFailed EXCEPT ![t] = FALSE]
    /\ lastCall' = [lastCall EXCEPT ![t] = NoCall]
    /\ UNCHANGED <<agentVars, sideVars, phase, api_ctx, outcome>>

\* get_pods: "if cluster and cluster != self.current_cluster": switch, or go
\* on to "v1 = client.CoreV1Api()" at once.
McpCheck(t) ==
    /\ pc[t] = "mcp_check"
    /\ pc' = [pc EXCEPT ![t] =
                IF req[t].cluster # None /\ req[t].cluster # current_cluster
                THEN "mcp_sw_check" ELSE "client"]
    /\ UNCHANGED <<agentVars, sideVars, req, phase, api_ctx, probed, apiFailed,
                   lastCall, outcome, result>>

\* switch_cluster: "if cluster_name not in self.clusters" returns the error
\* (get_pods then returns []).
McpSwCheck(t) ==
    /\ pc[t] = "mcp_sw_check"
    /\ IF req[t].cluster \notin Range(ClusterKeys)
       THEN McpAnswers(t, NotFoundResult)
       ELSE /\ pc' = [pc EXCEPT ![t] = "mcp_sw_load"]
            /\ UNCHANGED <<result, phase, api_ctx, outcome>>
    /\ UNCHANGED <<agentVars, sideVars, req, probed, apiFailed, lastCall>>

\* switch_cluster: config.load_kube_config(context=cluster_name)
McpSwLoad(t) ==
    /\ pc[t] = "mcp_sw_load"
    /\ \E ok \in BOOLEAN :
        IF ok
        THEN /\ loaded' = req[t].cluster
             /\ pc' = [pc EXCEPT ![t] = "mcp_sw_assign"]
             /\ UNCHANGED <<result, phase, api_ctx, outcome>>
        ELSE /\ McpAnswers(t, Result("error", "exception", <<>>, None))
             /\ UNCHANGED loaded
    /\ UNCHANGED <<kubeconfig, clusters, current_cluster, initialized, sideVars,
                   req, probed, apiFailed, lastCall>>

\* switch_cluster: self.current_cluster = cluster_name
McpSwAssign(t) ==
    /\ pc[t] = "mcp_sw_assign"
    /\ current_cluster' = req[t].cluster
    /\ pc' = [pc EXCEPT ![t] = "mcp_sw_probe"]
    /\ UNCHANGED <<kubeconfig, loaded, clusters, initialized, sideVars, req,
                   phase, api_ctx, probed, apiFailed, lastCall, outcome, result>>

\* switch_cluster: the probe and the success return; get_pods goes on to
\* build its client.
McpSwProbe(t) ==
    /\ pc[t] = "mcp_sw_probe"
    /\ \E ok \in BOOLEAN :
        /\ probed' = [probed EXCEPT ![t] = IF ok THEN "ok" ELSE "failed"]
        /\ IF req[t].fn = "switch_cluster"
           THEN McpAnswers(t, SwitchResult(ok, req[t].cluster))
           ELSE /\ pc' = [pc EXCEPT ![t] = "client"]
                /\ UNCHANGED <<result, phase, api_ctx, outcome>>
    /\ UNCHANGED <<agentVars, sideVars, req, apiFailed, lastCall>>

\* get_pods returns its list (the except clause and the 404 branch return []).
McpReturn(t) ==
    /\ pc[t] = "ret"
    /\ McpAnswers(t, PodList)
    /\ UNCHANGED <<agentVars, sideVars, req, probed, apiFailed, lastCall>>

NextWrapper ==
    \/ McpInitialize
    \/ McpCall(Main)
    \/ McpCheck(Main)
    \/ McpSwCheck(Main)
    \/ McpSwLoad(Main)
    \/ McpSwAssign(Main)
    \/ McpSwProbe(Main)
    \/ Client(Main)
    \/ ApiCall(Main)
    \/ McpReturn(Main)

SpecWrapper == Init /\ [][NextWrapper]_vars

\* Callers on separate threads, interleaved statement by statement.
NextConcurrent ==
    \/ Initialize
    \/ \E t \in Threads : Call(t, ConcurrentRequests)
    \/ \E t \in Threads : ListClustersOp(t)
    \/ \E t \in Threads : Check(t)
    \/ \E t \in Threads : SwCheck(t)
    \/ \E t \in Threads : SwLoad(t)
    \/ \E t \in Threads : SwAssign(t)
    \/ \E t \in Threads : SwProbe(t)
    \/ \E t \in Threads : Load(t)
    \/ \E t \in Threads : Client(t)
    \/ \E t \in Threads : ApiCall(t)
    \/ \E t \in Threads : Return(t)

SpecConcurrent == Init /\ [][NextConcurrent]_vars

----------------------------------------------------------------------------
\* K8sAgent.get_cluster_health on given API responses

\* Bounds of the responses: the nodes list_node answers and the pods
\* list_namespaced_pod("kube-system") answers.
MaxNodes == 4
MaxPods == 10

\* A response: the list the call answers, or the call raised.
Answer(items) == [raised |-> FALSE, items |-> items]
Raised == [raised |-> TRUE, items |-> <<>>]

SeqsUpTo(S, n) == UNION {[1..m -> S] : m \in 0..n}

\* list_node: it raises, or answers nodes, each given by the status of its
\* condition of type Ready.
NodeResponses ==
    {Raised} \cup {Answer(s) : s \in SeqsUpTo({"True", "False"}, MaxNodes)}

\* list_namespaced_pod: it raises (404 or another failure), or answers pods,
\* each given by its status.phase.
PodResponses ==
    {Raised} \cup {Answer(s) : s \in SeqsUpTo({"Running", "Pending"}, MaxPods)}

\* dict.get(key, default)
Get(d, key, default) == IF key \in DOMAIN d THEN d[key] ELSE default

\* [x for x in s if x == v], by its length
RECURSIVE CountEq(_, _)
CountEq(s, v) ==
    IF s = <<>> THEN 0
    ELSE (IF Head(s) = v THEN 1 ELSE 0) + CountEq(Tail(s), v)

\* get_node_metrics(): per node "Ready" iff its Ready condition is "True";
\* the except clause's dict has neither 'nodes' nor 'node_count'.
NodeMetrics(resp) ==
    IF resp.raised
    THEN [status |-> "error", message |-> "exception"]
    ELSE [status |-> "success",
          node_count |-> Len(resp.items),
          nodes |-> [i \in 1..Len(resp.items) |->
                        IF resp.items[i] = "True" THEN "Ready" ELSE "NotReady"]]

\* get_pods("kube-system"): per pod its phase as 'status'; the error dicts
\* have no 'pods'.
SystemPods(resp) ==
    IF resp.raised
    THEN [status |-> "error", message |-> "exception"]
    ELSE [status |-> "success", pod_count |-> Len(resp.items), pods |-> resp.items]

\* A float as the fraction num/den it stands for. Within the bounds the
\* doubles of the code round as these fractions do.
Times(x, n, d) == [num |-> x.num * n, den |-> x.den * d]

\* Round2 cutting the digits off instead of rounding.
Round2Truncates(x) == (100 * x.num) \div x.den

\* round(x, 2) in hundredths: the nearest hundredth, a tie to the even one.
Round2(x) ==
    LET n == 100 * x.num
        q == n \div x.den
        r == n % x.den
    IN IF 2 * r > x.den \/ (2 * r = x.den /\ q % 2 = 1) THEN q + 1 ELSE q

\* HealthScore with an empty set counted as a ratio of zero.
HealthScoreZeroWhenEmpty(ready_nodes, total_nodes, running_system_pods, total_system_pods) ==
    LET s0 == [num |-> 100, den |-> 1]
        s1 == IF total_nodes > 0 THEN Times(s0, ready_nodes, total_nodes)
              ELSE Times(s0, 0, 1)
        s2 == IF total_system_pods > 0
              THEN Times(s1, running_system_pods, total_system_pods)
              ELSE Times(s1, 0, 1)
    IN Round2(s2)

\* HealthScore with each ratio taken as a percentage.
HealthScorePercentOfPercent(ready_nodes, total_nodes, running_system_pods, total_system_pods) ==
    LET s0 == [num |-> 100, den |-> 1]
        s1 == IF total_nodes > 0 THEN Times(s0, 100 * ready_nodes, total_nodes) ELSE s0
        s2 == IF total_system_pods > 0
              THEN Times(s1, 100 * running_system_pods, total_system_pods) ELSE s1
    IN Round2(s2)

\* The score of get_cluster_health, in hundredths: 100, times ready/total
\* when there are nodes, times running/total when there are system pods.
HealthScore(ready_nodes, total_nodes, running_system_pods, total_system_pods) ==
    LET s0 == [num |-> 100, den |-> 1]
        s1 == IF total_nodes > 0 THEN Times(s0, ready_nodes, total_nodes) ELSE s0
        s2 == IF total_system_pods > 0
              THEN Times(s1, running_system_pods, total_system_pods) ELSE s1
    IN Round2(s2)

\* The dict get_cluster_health returns (health_score in hundredths).
HealthResult(nm, sp) ==
    LET ready_nodes == CountEq(Get(nm, "nodes", <<>>), "Ready")
        total_nodes == Get(nm, "node_count", 0)
        running_system_pods == CountEq(Get(sp, "pods", <<>>), "Running")
        total_system_pods == Len(Get(sp, "pods", <<>>))
    IN [status |-> "success",
        cluster_name |-> current_cluster,
        health_score |-> HealthScore(ready_nodes, total_nodes,
                                     running_system_pods, total_system_pods),
        nodes |-> [ready |-> ready_nodes, total |-> total_nodes],
        system_pods |-> [running |-> running_system_pods,
                         total |-> total_system_pods]]

\* node_metrics = await self.get_node_metrics()
HealthNodes ==
    /\ hpc = "nodes"
    /\ node_metrics' = NodeMetrics(nodeResp)
    /\ hpc' = "pods"
    /\ UNCHANGED <<agentVars, moreVars, threadVars, applyVars, controllerVars, nodeResp, podResp, system_pods, health>>

\* system_pods = await self.get_pods("kube-system")
HealthPods ==
    /\ hpc = "pods"
    /\ system_pods' = SystemPods(podResp)
    /\ hpc' = "score"
    /\ UNCHANGED <<agentVars, moreVars, threadVars, applyVars, controllerVars, nodeResp, podResp, node_metrics, health>>

\* The counts, the score and the return.
HealthReturn ==
    /\ hpc = "score"
    /\ health' = HealthResult(node_metrics, system_pods)
    /\ hpc' = "done"
    /\ UNCHANGED <<agentVars, moreVars, threadVars, applyVars, controllerVars, nodeResp, podResp, node_metrics,
                   system_pods>>

\* An initialized agent, and get_cluster_health about to run on one pair of
\* responses.
InitHealth ==
    /\ kubeconfig = [contexts |-> Contexts, active |-> Contexts[1]]
    /\ loaded = kubeconfig.active
    /\ clusters = Registry(kubeconfig)
    /\ current_cluster = kubeconfig.active
    /\ initialized = TRUE
    /\ pc = [t \in Threads |-> "idle"]
    /\ req = [t \in Threads |-> NoRequest]
    /\ phase = [t \in Threads |-> 1]
    /\ api_ctx = [t \in Threads |-> None]
    /\ probed = [t \in Threads |-> "no"]
    /\ apiFailed = [t \in Threads |-> FALSE]
    /\ lastCall = [t \in Threads |-> NoCall]
    /\ outcome = [t \in Threads |-> None]
    /\ result = [t \in Threads |-> NoResult]
    /\ nodeResp \in NodeResponses
    /\ podResp \in PodResponses
    /\ hpc = "nodes"
    /\ node_metrics = <<>>
    /\ system_pods = <<>>
    /\ health = <<>>
    /\ ApplyIdle
    /\ ControllerIdle
    /\ MoreIdle

NextHealth == HealthNodes \/ HealthPods \/ HealthReturn

SpecHealth == InitHealth /\ [][NextHealth]_vars

----------------------------------------------------------------------------
\* K8sAgent.apply_yaml on a given manifest and cluster

\* Bounds: the documents of a manifest, and the times it is applied.
MaxDocs == 3
MaxApplies == 2

\* A document of the manifest: a mapping with its kind and metadata.name, or
\* an empty document (yaml gives None for it).
EmptyDoc == [kind |-> None, name |-> None]
Documents ==
    {EmptyDoc} \cup {[kind |-> k, name |-> "web"] : k \in {"Deployment", "Service", "ConfigMap"}}

Manifests == SeqsUpTo(Documents, MaxDocs)

\* The resource a document names (the code's f"{kind}/{name}").
Resource(d) == <<d.kind, d.name>>

\* Supported with the Service branch missing.
SupportedOnlyDeployment(kind) == kind = "Deployment"

\* 'if kind == "Deployment"' / 'elif kind == "Service"': the kinds that are applied.
Supported(kind) == kind \in {"Deployment", "Service"}

\* The resources a cluster can hold before the first apply.
Clusters == SUBSET {Resource(d) : d \in {e \in Documents : Supported(e.kind)}}

\* Handled with no status taken for already-exists.
HandledNever(status) == FALSE

\* "if e.status == 409": the ApiException that is turned into a patch.
Handled(status) == status = 409

\* results.append({"resource": ..., "action": ..., "cluster": self.current_cluster})
ResultEntry(d, action) ==
    [resource |-> Resource(d), action |-> action, cluster |-> current_cluster]

\* An API call of the apply and how the cluster answered it.
Attempt(op, answer) == [op |-> op, doc |-> adoc, answer |-> answer]

\* apply_yaml's two return dicts; the except clause's has no 'results'.
ApplySuccess ==
    [status |-> "success", message |-> "applied", cluster |-> current_cluster,
     results |-> results]
ApplyError == [status |-> "error", message |-> "exception", cluster |-> current_cluster]

\* "if not doc: continue", and a document of a kind that is not applied.
ApplySkip ==
    /\ apc = "loop"
    /\ adoc <= Len(manifest)
    /\ ~Supported(manifest[adoc].kind)
    /\ adoc' = adoc + 1
    /\ UNCHANGED <<agentVars, moreVars, threadVars, healthVars, controllerVars, manifest,
                   store0, store, apc, results, attempts, applied>>

\* ApplyFails with the failure recorded and the loop going on.
ApplyFailsGoesOn(op, answer) ==
    /\ attempts' = Append(attempts, Attempt(op, answer))
    /\ adoc' = adoc + 1
    /\ apc' = "loop"
    /\ UNCHANGED <<store, results, applied>>

\* An exception that is not handled leaves the loop for the outer except
\* clause, which returns the error dict.
ApplyFails(op, answer) ==
    /\ attempts' = Append(attempts, Attempt(op, answer))
    /\ applied' = Append(applied, ApplyError)
    /\ apc' = "done"
    /\ UNCHANGED <<store, adoc, results>>

\* create_namespaced_deployment / create_namespaced_service: the cluster
\* creates the resource, answers 409 when it exists, or fails otherwise.
ApplyCreate ==
    /\ apc = "loop"
    /\ adoc <= Len(manifest)
    /\ Supported(manifest[adoc].kind)
    /\ \E raised \in BOOLEAN :
        LET status == IF raised THEN 500
                      ELSE IF Resource(manifest[adoc]) \in store THEN 409 ELSE 201
        IN  CASE status = 201 ->
                    /\ store' = store \cup {Resource(manifest[adoc])}
                    /\ results' = Append(results, ResultEntry(manifest[adoc], "created"))
                    /\ attempts' = Append(attempts, Attempt("create", "ok"))
                    /\ adoc' = adoc + 1
                    /\ UNCHANGED <<apc, applied>>
              [] status # 201 /\ Handled(status) ->
                    /\ attempts' = Append(attempts, Attempt("create", "conflict"))
                    /\ apc' = "patch"
                    /\ UNCHANGED <<store, results, adoc, applied>>
              [] OTHER ->
                    ApplyFails("create", IF status = 409 THEN "conflict" ELSE "fail")
    /\ UNCHANGED <<agentVars, moreVars, threadVars, healthVars, controllerVars, manifest, store0>>

\* patch_namespaced_deployment / patch_namespaced_service inside the handler
\* of the 409: it succeeds, or its exception leaves the loop.
ApplyPatch ==
    /\ apc = "patch"
    /\ \E raised \in BOOLEAN :
        IF raised
        THEN ApplyFails("patch", "fail")
        ELSE /\ results' = Append(results, ResultEntry(manifest[adoc], "updated"))
             /\ attempts' = Append(attempts, Attempt("patch", "ok"))
             /\ adoc' = adoc + 1
             /\ apc' = "loop"
             /\ UNCHANGED <<store, applied>>
    /\ UNCHANGED <<agentVars, moreVars, threadVars, healthVars, controllerVars, manifest, store0>>

\* The loop has ended: return the success dict.
ApplyReturn ==
    /\ apc = "loop"
    /\ adoc > Len(manifest)
    /\ applied' = Append(applied, ApplySuccess)
    /\ apc' = "done"
    /\ UNCHANGED <<agentVars, moreVars, threadVars, healthVars, controllerVars, manifest,
                   store0, store, adoc, results, attempts>>

\* The caller applies the same manifest to the same cluster once more.
ApplyAgain ==
    /\ apc = "done"
    /\ Len(applied) < MaxApplies
    /\ apc' = "loop"
    /\ adoc' = 1
    /\ results' = <<>>
    /\ attempts' = <<>>
    /\ UNCHANGED <<agentVars, moreVars, threadVars, healthVars, controllerVars, manifest,
                   store0, store, applied>>

\* An initialized agent whose context is loaded, and apply_yaml at its loop
\* on one manifest and one cluster.
InitApply ==
    /\ kubeconfig = [contexts |-> Contexts, active |-> Contexts[1]]
    /\ loaded = kubeconfig.active
    /\ clusters = Registry(kubeconfig)
    /\ current_cluster = kubeconfig.active
    /\ initialized = TRUE
    /\ pc = [t \in Threads |-> "idle"]
    /\ req = [t \in Threads |-> NoRequest]
    /\ phase = [t \in Threads |-> 1]
    /\ api_ctx = [t \in Threads |-> None]
    /\ probed = [t \in Threads |-> "no"]
    /\ apiFailed = [t \in Threads |-> FALSE]
    /\ lastCall = [t \in Threads |-> NoCall]
    /\ outcome = [t \in Threads |-> None]
    /\ result = [t \in Threads |-> NoResult]
    /\ HealthIdle
    /\ ControllerIdle
    /\ MoreIdle
    /\ manifest \in Manifests
    /\ store0 \in Clusters
    /\ store = store0
    /\ apc = "loop"
    /\ adoc = 1
    /\ results = <<>>
    /\ attempts = <<>>
    /\ applied = <<>>

NextApply == ApplySkip \/ ApplyCreate \/ ApplyPatch \/ ApplyReturn \/ ApplyAgain

SpecApply == InitApply /\ [][NextApply]_vars

----------------------------------------------------------------------------
\* KratosController: tasks, the function wrappers and the history

\* Bounds: the entries of the history and the tasks started.
MaxHistory == 2
MaxTasks == 2

\* The calls the assistant makes through the wrappers: catalog operations,
\* with the parameters it chose.
ControllerRequests ==
    {Req("list_clusters", None, 0),
     Req("switch_cluster", Ghost, 0),
     Req("get_pods", None, 0),
     [Req("scale_deployment", None, 1) EXCEPT !.missing = "replicas"]}

\* The entry sync_wrapper appends: the function and its result.
HistoryEntry(fn, r) == [function |-> fn, status |-> r.status, message |-> r.message]

\* Recorded with the entry put in front.
RecordedFirst(entry) == <<entry>> \o conversation_history

\* self.conversation_history.append(entry)
Recorded(entry) == Append(conversation_history, entry)

\* What sync_wrapper returns: on every branch a formatted string.
Summary(fn, r) ==
    [type |-> "str",
     text |-> IF r.status = "success" THEN "summary" ELSE "Error in"]

\* process_user_message up to the chat: the task is stored as processing.
\* After shutdown the chat finds no agents and returns its error dict at once.
ProcessStart ==
    /\ tpc = "idle"
    /\ Len(running_tasks) < MaxTasks
    /\ running_tasks' = Append(running_tasks, "processing")
    /\ task' = Len(running_tasks) + 1
    /\ tpc' = IF shut THEN "update" ELSE "chat"
    /\ UNCHANGED <<exported, agentVars, moreVars, threadVars, healthVars, applyVars,
                   conversation_history, reply, shut>>

\* sync_wrapper: the assistant calls a function; execute_function starts on
\* the wrapper's event loop.
WrapperCall ==
    /\ tpc = "chat"
    /\ pc[Main] = "idle"
    /\ Len(conversation_history) < MaxHistory
    /\ Call(Main, ControllerRequests)

\* The rendering of the summary can raise: the branch of a successful get_pods
\* calls .lower() on each pod's name, which raises when a name is None.
RenderingCanFail(fn, r) == fn = "get_pods" /\ r.status = "success"

\* sync_wrapper after execute_function returned: append the entry, then render
\* and return the formatted string. When the rendering raises, the except
\* clause appends an entry of its own and returns the error string.
WrapperRecord ==
    /\ tpc = "chat"
    /\ pc[Main] = "done"
    /\ \E rendered \in {TRUE} \cup
                        (IF RenderingCanFail(req[Main].fn, result[Main])
                         THEN {FALSE} ELSE {}) :
        LET entry == HistoryEntry(req[Main].fn, result[Main])
            error_result == Result("error", "exception", <<>>, None)
        IN IF rendered
           THEN /\ conversation_history' = Recorded(entry)
                /\ reply' = Summary(req[Main].fn, result[Main])
           ELSE /\ conversation_history' =
                      Append(Recorded(entry), HistoryEntry(req[Main].fn, error_result))
                /\ reply' = [type |-> "str", text |-> "Error executing"]
    /\ pc' = [pc EXCEPT ![Main] = "idle"]
    /\ UNCHANGED <<exported, agentVars, moreVars, healthVars, applyVars, running_tasks, tpc, task, shut,
                   req, phase, api_ctx, probed, apiFailed, lastCall, outcome, result>>

\* sync_wrapper's except clause: the event loop could not be made or run;
\* append an error entry and return the error string.
WrapperFault ==
    /\ tpc = "chat"
    /\ pc[Main] = "idle"
    /\ Len(conversation_history) < MaxHistory
    /\ \E r \in ControllerRequests :
        LET error_result == Result("error", "exception", <<>>, None)
        IN /\ conversation_history' = Recorded(HistoryEntry(r.fn, error_result))
           /\ reply' = [type |-> "str", text |-> "Error executing"]
    /\ UNCHANGED <<exported, agentVars, moreVars, threadVars, healthVars, applyVars, running_tasks,
                   tpc, task, shut>>

\* _process_with_k8s_assistant returns (a result or its own error dict).
ChatEnds ==
    /\ tpc = "chat"
    /\ pc[Main] = "idle"
    /\ tpc' = "update"
    /\ UNCHANGED <<exported, agentVars, moreVars, threadVars, healthVars, applyVars,
                   conversation_history, running_tasks, task, reply, shut>>

\* task_info.update({"status": "completed", ...})
TaskUpdate ==
    /\ tpc = "update"
    /\ running_tasks' = [running_tasks EXCEPT ![task] = "completed"]
    /\ tpc' = "finally"
    /\ UNCHANGED <<exported, agentVars, moreVars, threadVars, healthVars, applyVars,
                   conversation_history, task, reply, shut>>

\* finally: self.running_tasks[task_id]["status"] = "completed", and return.
TaskFinally ==
    /\ tpc = "finally"
    /\ running_tasks' = [running_tasks EXCEPT ![task] = "completed"]
    /\ tpc' = "idle"
    /\ UNCHANGED <<exported, agentVars, moreVars, threadVars, healthVars, applyVars,
                   conversation_history, task, reply, shut>>

\* shutdown(), called from another thread than the task's: every task that
\* is processing becomes cancelled, and the agents are cleared.
Shutdown ==
    /\ running_tasks' =
          [i \in 1..Len(running_tasks) |->
              IF running_tasks[i] = "processing" THEN "cancelled" ELSE running_tasks[i]]
    /\ shut' = TRUE
    /\ UNCHANGED <<exported, agentVars, moreVars, threadVars, healthVars, applyVars,
                   conversation_history, tpc, task, reply>>

\* The controller after initialize(): its agent is initialized.
InitController ==
    /\ kubeconfig = [contexts |-> Contexts, active |-> Contexts[1]]
    /\ loaded = kubeconfig.active
    /\ clusters = Registry(kubeconfig)
    /\ current_cluster = kubeconfig.active
    /\ initialized = TRUE
    /\ pc = [t \in Threads |-> "idle"]
    /\ req = [t \in Threads |-> NoRequest]
    /\ phase = [t \in Threads |-> 1]
    /\ api_ctx = [t \in Threads |-> None]
    /\ probed = [t \in Threads |-> "no"]
    /\ apiFailed = [t \in Threads |-> FALSE]
    /\ lastCall = [t \in Threads |-> NoCall]
    /\ outcome = [t \in Threads |-> None]
    /\ result = [t \in Threads |-> NoResult]
    /\ HealthIdle
    /\ ApplyIdle
    /\ ControllerIdle
    /\ MoreIdle

NextController ==
    \/ ProcessStart
    \/ WrapperCall
    \/ ListClustersOp(Main)
    \/ SwCheck(Main)
    \/ Check(Main)
    \/ Load(Main)
    \/ Client(Main)
    \/ ApiCall(Main)
    \/ Return(Main)
    \/ WrapperRecord
    \/ WrapperFault
    \/ ChatEnds
    \/ TaskUpdate
    \/ TaskFinally
    \/ Shutdown
    \/ GetAgentStatus

SpecController == InitController /\ [][NextController]_vars

----------------------------------------------------------------------------
\* K8sAgent.restart_deployment on a cluster that holds deployments

\* Bound: the restarts made.
MaxRestarts == 2

\* The annotations a deployment may have before any restart: none, an empty
\* dict, and dicts with another key, with a restartedAt of time 0, or both.
AnnotationValues ==
    {NoAnnotations} \cup
    {[isNone |-> FALSE, restartedAt |-> r, other |-> o] : r \in {-1, 0}, o \in BOOLEAN}

Deployment(a) == [exists |-> TRUE, annotations |-> a]

\* What the cluster holds at the start.
DeploymentStores ==
    {[n \in DeploymentNames |-> IF n = "web" THEN w ELSE d] :
        w \in {Absent} \cup {Deployment(a) : a \in AnnotationValues},
        d \in {Absent, Deployment(EmptyAnnotations)}}

\* "not annotations": None and the empty dict are falsy.
Falsy(a) == a.isNone \/ (a.restartedAt = -1 /\ ~a.other)

\* Annotated with a restartedAt that is already there kept.
AnnotatedKeepsOld(a, now) ==
    IF a.isNone \/ (a.restartedAt = -1 /\ ~a.other)
    THEN [isNone |-> FALSE, restartedAt |-> now, other |-> FALSE]
    ELSE IF a.restartedAt = -1 THEN [a EXCEPT !.restartedAt = now] ELSE a

\* "if not annotations: annotations = {}" and
\* annotations["kubectl.kubernetes.io/restartedAt"] = datetime.utcnow().isoformat()
Annotated(a, now) ==
    [(IF Falsy(a) THEN EmptyAnnotations ELSE a) EXCEPT !.restartedAt = now]

RestartResult(status) == [status |-> status, deployment |-> rname]

\* restart_deployment(deployment_name) is called (the cluster test and the
\* load of the context are those of every operation).
RestartStart ==
    /\ rpc \in {"off", "done"}
    /\ clock <= MaxRestarts
    /\ \E n \in DeploymentNames : rname' = n
    /\ rpc' = "read"
    /\ body' = Absent
    /\ patches' = <<>>
    /\ restarted' = NoRestart
    /\ UNCHANGED <<agentVars, threadVars, healthVars, applyVars, controllerVars,
                   podVars, recentVars, dstore, clock>>

\* apps_v1.read_namespaced_deployment: it raises 404 when the cluster has no
\* such deployment, it may raise for another reason, or it answers the
\* deployment; the except clause returns the error dict.
RestartRead ==
    /\ rpc = "read"
    /\ \E answered \in BOOLEAN :
        IF answered /\ dstore[rname].exists
        THEN /\ body' = dstore[rname]
             /\ rpc' = "annotate"
             /\ UNCHANGED <<restarted, clock>>
        ELSE /\ restarted' = RestartResult("error")
             /\ rpc' = "done"
             /\ clock' = clock + 1
             /\ UNCHANGED body
    /\ UNCHANGED <<agentVars, threadVars, healthVars, applyVars, controllerVars,
                   podVars, recentVars, dstore, rname, patches>>

\* The restart annotation is put on the local deployment object.
RestartAnnotate ==
    /\ rpc = "annotate"
    /\ body' = [body EXCEPT !.annotations = Annotated(@, clock)]
    /\ rpc' = "patch"
    /\ UNCHANGED <<agentVars, threadVars, healthVars, applyVars, controllerVars,
                   podVars, recentVars, dstore, clock, rname, patches, restarted>>

\* apps_v1.patch_namespaced_deployment(body=deployment), and the return of the
\* success dict or, when the patch raises, of the error dict.
RestartPatch ==
    /\ rpc = "patch"
    /\ patches' = Append(patches, body)
    /\ \E ok \in BOOLEAN :
        IF ok
        THEN /\ dstore' = [dstore EXCEPT ![rname] = body]
             /\ restarted' = RestartResult("success")
        ELSE /\ restarted' = RestartResult("error")
             /\ UNCHANGED dstore
    /\ rpc' = "done"
    /\ clock' = clock + 1
    /\ UNCHANGED <<agentVars, threadVars, healthVars, applyVars, controllerVars,
                   podVars, recentVars, rname, body>>

\* The initialized agent of the side specifications.
AgentReady ==
    /\ kubeconfig = [contexts |-> Contexts, active |-> Contexts[1]]
    /\ loaded = kubeconfig.active
    /\ clusters = Registry(kubeconfig)
    /\ current_cluster = kubeconfig.active
    /\ initialized = TRUE
    /\ pc = [t \in Threads |-> "idle"]
    /\ req = [t \in Threads |-> NoRequest]
    /\ phase = [t \in Threads |-> 1]
    /\ api_ctx = [t \in Threads |-> None]
    /\ probed = [t \in Threads |-> "no"]
    /\ apiFailed = [t \in Threads |-> FALSE]
    /\ lastCall = [t \in Threads |-> NoCall]
    /\ outcome = [t \in Threads |-> None]
    /\ result = [t \in Threads |-> NoResult]

InitRestart ==
    /\ AgentReady
    /\ HealthIdle
    /\ ApplyIdle
    /\ ControllerIdle
    /\ dstore \in DeploymentStores
    /\ clock = 1
    /\ rpc = "off"
    /\ rname = None
    /\ body = Absent
    /\ patches = <<>>
    /\ restarted = NoRestart
    /\ pod = NoPod
    /\ pod_info = NoPodInfo
    /\ limit = -1
    /\ recent = <<>>

NextRestart == RestartStart \/ RestartRead \/ RestartAnnotate \/ RestartPatch

SpecRestart == InitRestart /\ [][NextRestart]_vars

----------------------------------------------------------------------------
\* K8sAgent.get_pods: the containers of a listed pod

\* Bound: the entries of a pod's container_statuses.
MaxStatuses == 2

ContainerNames == {"app", "sidecar"}

\* pod.spec.containers: one or two containers, by name.
ContainerLists ==
    {<<c>> : c \in ContainerNames} \cup
    {cs \in [1..2 -> ContainerNames] : cs[1] # cs[2]}

\* pod.status.container_statuses: None (no status yet), or a list with the
\* name and the ready flag of each entry.
StatusData ==
    {NoStatuses} \cup
    {[isNone |-> FALSE, items |-> cs] :
        cs \in SeqsUpTo([name : ContainerNames, ready : BOOLEAN], MaxStatuses)}

Pods == [containers : ContainerLists, container_statuses : StatusData]

\* OrEmpty with None passed on.
OrEmptyKeepsNone(d) == d

\* "pod.status.container_statuses or []"
OrEmpty(d) ==
    IF d.isNone \/ d.items = <<>> THEN [isNone |-> FALSE, items |-> <<>>] ELSE d

\* any(cs.name == container.name and cs.ready for cs in statuses)
RECURSIVE AnyReady(_, _)
AnyReady(name, cs) ==
    IF cs = <<>>
    THEN FALSE
    ELSE IF Head(cs).name = name /\ Head(cs).ready
         THEN TRUE
         ELSE AnyReady(name, Tail(cs))

\* pod_info["containers"]: one dict per container of the pod; iterating over
\* None raises TypeError, which get_pods' except clause turns into its error.
Containers(p) ==
    LET statuses == OrEmpty(p.container_statuses)
    IN IF statuses.isNone
       THEN [built |-> TRUE, raised |-> TRUE, containers |-> <<>>]
       ELSE [built |-> TRUE, raised |-> FALSE,
             containers |->
                [j \in 1..Len(p.containers) |->
                    [name |-> p.containers[j],
                     ready |-> AnyReady(p.containers[j], statuses.items)]]]

\* get_pods builds pod_info for the pod.
PodInfo ==
    /\ ~pod_info.built
    /\ pod_info' = Containers(pod)
    /\ UNCHANGED <<agentVars, threadVars, healthVars, applyVars, controllerVars,
                   restartVars, recentVars, pod>>

InitPods ==
    /\ AgentReady
    /\ HealthIdle
    /\ ApplyIdle
    /\ ControllerIdle
    /\ dstore = [n \in DeploymentNames |-> Absent]
    /\ clock = 1
    /\ rpc = "off"
    /\ rname = None
    /\ body = Absent
    /\ patches = <<>>
    /\ restarted = NoRestart
    /\ pod \in Pods
    /\ pod_info = NoPodInfo
    /\ limit = -1
    /\ recent = <<>>

NextPods == PodInfo

SpecPods == InitPods /\ [][NextPods]_vars

----------------------------------------------------------------------------
\* KratosController.get_recent_history on a given history

\* Bounds: the entries of the history and the limit asked for.
MaxEntries == 4
MaxLimit == 5

\* The entries a history is made of.
Entries ==
    {HistoryEntry("list_clusters", Result("success", "clusters", <<>>, None)),
     HistoryEntry("get_pods", Result("error", "exception", <<>>, None))}

Histories == SeqsUpTo(Entries, MaxEntries)

\* Python's seq[start:]: a negative start counts from the end, and a start
\* outside the list is clipped to it.
SliceFrom(seq, start) ==
    LET n == Len(seq)
        from == IF start < 0
                THEN (IF start + n < 0 THEN 0 ELSE start + n)
                ELSE (IF start > n THEN n ELSE start)
    IN SubSeq(seq, from + 1, n)

\* "self.conversation_history[-limit:] if self.conversation_history else []"
get_recent_history(l) ==
    IF conversation_history # <<>> THEN SliceFrom(conversation_history, 0 - l) ELSE <<>>

\* get_recent_history(limit) is called.
GetRecentHistory ==
    /\ \E l \in 0..MaxLimit :
        /\ limit' = l
        /\ recent' = get_recent_history(l)
    /\ UNCHANGED <<agentVars, threadVars, healthVars, applyVars, controllerVars,
                   restartVars, podVars>>

InitHistory ==
    /\ AgentReady
    /\ HealthIdle
    /\ ApplyIdle
    /\ conversation_history \in Histories
    /\ running_tasks = <<>>
    /\ tpc = "idle"
    /\ task = 0
    /\ reply = NoReply
    /\ shut = FALSE
    /\ exported = NoExport
    /\ MoreIdle

NextHistory == GetRecentHistory

SpecHistory == InitHistory /\ [][NextHistory]_vars

----------------------------------------------------------------------------
\* Properties

Registered(c) == c \in Range(ClusterKeys)

InFlight(t) == pc[t] \notin {"idle", "done"}

\* Thread t runs a cluster-scoped operation with an explicit, registered cluster.
ExplicitOp(t) == req[t].fn \in ResourceOps /\ Registered(req[t].cluster)

\* C1: when two cluster-scoped operations with explicit, registered and
\* different target clusters are in flight together, every API call of either
\* goes to its own requested cluster, with that cluster the active one.
C1_CallsRunOnRequestedCluster ==
    \A t, u \in Threads :
        (/\ t # u
         /\ InFlight(t) /\ InFlight(u)
         /\ ExplicitOp(t) /\ ExplicitOp(u)
         /\ req[t].cluster # req[u].cluster
         /\ Called(t))
        => (lastCall[t].ctx = req[t].cluster /\ lastCall[t].cur = req[t].cluster)

\* C2: an operation whose requested cluster equalled the active cluster when
\* compared (it made no switch) has its API calls go to that cluster.
C2_NoSwitchCallRunsOnRequestedCluster ==
    \A t \in Threads :
        (/\ req[t].fn \in ResourceOps
         /\ req[t].cluster # None
         /\ ~Switched(t)
         /\ Called(t))
        => lastCall[t].ctx = req[t].cluster

\* C3: an operation invoked without a cluster that succeeds reports in its
\* result the cluster its API call went to.
C3_UnqualifiedResultNamesCalledCluster ==
    \A t \in Threads :
        (/\ pc[t] = "done"
         /\ req[t].fn \in ResourceOps
         /\ req[t].cluster = None
         /\ result[t].status = "success"
         /\ Called(t))
        => result[t].cluster = lastCall[t].ctx

\* The invocation of thread t found the agent initialized.
Dispatched(t) == pc[t] # "idle" /\ result[t].message # "not_initialized"

\* Thread t runs, or has run, switch_cluster with a name that is not registered.
UnknownSwitch(t) ==
    Dispatched(t) /\ req[t].fn = "switch_cluster" /\ ~Registered(req[t].cluster)

\* A step of thread t inside such an invocation: its start, or its return.
UnknownSwitchStep(t) ==
    /\ pc'[t] # pc[t]
    /\ "sw_check" \in {pc[t], pc'[t]}
    /\ req'[t].fn = "switch_cluster"
    /\ req'[t].cluster \notin Range(ClusterKeys)

\* C4: switch_cluster with an unregistered name returns an error whose message
\* lists exactly the registered names, in registry order, and no step of the
\* invocation changes current_cluster.
C4_UnknownSwitchIsRefused ==
    [][\A t \in Threads :
        UnknownSwitchStep(t)
        => /\ current_cluster' = current_cluster
           /\ pc[t] = "sw_check"
                => /\ pc'[t] = "done"
                   /\ result'[t].status = "error"
                   /\ result'[t].message = "not_found"
                   /\ result'[t].items = ClusterKeys]_vars

C4_Witness ==
    /\ pc[Main] = "done"
    /\ UnknownSwitch(Main)
    /\ result[Main].message = "not_found"
    /\ result[Main].items = Contexts
    /\ current_cluster \in ClusterNames

\* C5: once initialized, list_clusters reports exactly one active entry and
\* the 'active' flag stored with each registered cluster agrees with it.
C5_ExactlyOneActiveAndFlagsAgree ==
    initialized =>
        /\ Cardinality({i \in 1..Len(clusters) : ListClusters[i].active}) = 1
        /\ \A i \in 1..Len(clusters) : clusters[i].active = ListClusters[i].active

\* The counts the responses hold.
ReadyNodes == Cardinality({i \in 1..Len(nodeResp.items) : nodeResp.items[i] = "True"})
TotalNodes == Len(nodeResp.items)
RunningPods == Cardinality({i \in 1..Len(podResp.items) : podResp.items[i] = "Running"})
TotalPods == Len(podResp.items)

Abs(n) == IF n < 0 THEN -n ELSE n

\* h hundredths is a hundredth nearest to 100 * num / den.
NearestHundredth(h, num, den) == 2 * Abs(h * den - 10000 * num) <= den

\* C6: with nodes and system pods present, the score is
\* 100 * (readyNodes/totalNodes) * (runningPods/totalPods) rounded to two decimals.
C6_ScoreIsProductOfRatios ==
    (hpc = "done" /\ TotalNodes > 0 /\ TotalPods > 0)
    => NearestHundredth(health.health_score,
                        ReadyNodes * RunningPods, TotalNodes * TotalPods)

C6_Witness ==
    /\ hpc = "done"
    /\ ReadyNodes = 3 /\ TotalNodes = 4 /\ RunningPods = 9 /\ TotalPods = 10
    /\ health.health_score = 6750

\* C7: an empty node list and an empty system-pod list each count as a factor
\* of 1: both empty give 100, one empty gives 100 times the other ratio.
C7_EmptySetIsFactorOne ==
    (hpc = "done" /\ ~nodeResp.raised /\ ~podResp.raised)
    => /\ (TotalNodes = 0 /\ TotalPods = 0) => health.health_score = 10000
       /\ (TotalNodes = 0 /\ TotalPods > 0)
            => NearestHundredth(health.health_score, RunningPods, TotalPods)
       /\ (TotalNodes > 0 /\ TotalPods = 0)
            => NearestHundredth(health.health_score, ReadyNodes, TotalNodes)

C7_Witness ==
    /\ hpc = "done"
    /\ nodeResp = Answer(<<>>)
    /\ podResp = Answer(<<"Running", "Pending">>)
    /\ health.health_score = 5000

\* C8: a successful result has a score between 0 and 100 and counts with
\* ready <= total and running <= total.
C8_ScoreAndCountsInRange ==
    (hpc = "done" /\ health.status = "success")
    => /\ 0 <= health.health_score /\ health.health_score <= 10000
       /\ health.nodes.ready <= health.nodes.total
       /\ health.system_pods.running <= health.system_pods.total

C8_Witness ==
    /\ hpc = "done"
    /\ health.status = "success"
    /\ health.nodes = [ready |-> 1, total |-> 3]
    /\ health.system_pods = [running |-> 2, total |-> 2]

\* C9: an operation one of whose API calls failed returns an error whose
\* message is the cause.
C9_FailedCallGivesError ==
    \A t \in Threads :
        (pc[t] = "done" /\ req[t].fn \in ResourceOps /\ apiFailed[t])
        => /\ result[t].status = "error"
           /\ result[t].message \in {"exception", "namespace_not_found"}

\* C10: scale_deployment with negative replicas returns an invalid-parameter
\* error, and issues neither an API call nor a switch.
C10_NegativeReplicasRefused ==
    \A t \in Threads :
        (Dispatched(t) /\ req[t].fn = "scale_deployment" /\ req[t].replicas < 0)
        => /\ ~Called(t)
           /\ ~Switched(t)
           /\ pc[t] = "done"
                => (result[t].status = "error"
                    /\ result[t].message = "invalid_parameter")

\* A step of thread t: its invocation starts, moves on, or returns.
ThreadStep(t) == <<pc[t], req[t], result[t]>>' # <<pc[t], req[t], result[t]>>

\* C11: execute_function with a name that is not in the catalog returns an
\* error at once: no handler position is entered, no API call is issued, no
\* context is loaded and current_cluster stays as it was.
C11_UnknownNameIsRefused ==
    [][\A t \in Threads :
        (ThreadStep(t) /\ req'[t].fn \notin CatalogNames)
        => /\ pc'[t] = "done"
           /\ result'[t].status = "error"
           /\ lastCall'[t] = NoCall
           /\ probed'[t] = "no"
           /\ current_cluster' = current_cluster
           /\ loaded' = loaded]_vars

C11_Witness ==
    /\ initialized
    /\ pc[Main] = "done"
    /\ req[Main].fn = "no_such_function"
    /\ result[Main] = Result("error", "unknown_function", <<>>, None)

\* C12: on an initialized agent, a catalog operation called without a parameter
\* its catalog entry requires returns an error naming that parameter, and
\* issues no API call and no switch.
C12_MissingRequiredParameterIsRefused ==
    [][\A t \in Threads :
        (/\ ThreadStep(t)
         /\ initialized
         /\ req'[t].fn \in CatalogNames
         /\ req'[t].missing \in Required(req'[t].fn))
        => /\ pc'[t] = "done"
           /\ result'[t].status = "error"
           /\ result'[t].items = <<req'[t].missing>>
           /\ lastCall'[t] = NoCall
           /\ probed'[t] = "no"
           /\ current_cluster' = current_cluster
           /\ loaded' = loaded]_vars

C12_Witness ==
    /\ initialized
    /\ pc[Main] = "done"
    /\ req[Main].fn = "scale_deployment"
    /\ req[Main].missing = "replicas"
    /\ req[Main].cluster \in ClusterNames \ {current_cluster}
    /\ result[Main] = [Result("error", "missing_argument", <<"replicas">>, None)
                       EXCEPT !.function = "scale_deployment"]

\* C14: while the agent is not initialized, every execute_function call
\* returns an error at once, enters no handler, issues no API call and
\* changes nothing of the agent.
C14_UninitializedAgentRefusesAll ==
    [][\A t \in Threads :
        (ThreadStep(t) /\ ~initialized)
        => /\ pc'[t] = "done"
           /\ result'[t].status = "error"
           /\ lastCall'[t] = NoCall
           /\ probed'[t] = "no"
           /\ UNCHANGED agentVars]_vars

C14_Witness ==
    /\ ~initialized
    /\ kubeconfig.contexts = <<>>
    /\ pc[Main] = "done"
    /\ req[Main].fn = "get_pods"
    /\ result[Main] = Result("error", "not_initialized", <<>>, None)

\* The dict the latest apply_yaml call returned.
LastApplied == applied[Len(applied)]

\* C15: when an apply fails with a non-conflict error after earlier documents
\* were applied, the error result holds a 'results' list with exactly the
\* entries of the documents applied before the failure.
C15_ErrorResultHoldsPartialResults ==
    (/\ apc = "done"
     /\ LastApplied.status = "error"
     /\ results # <<>>)
    => /\ "results" \in DOMAIN LastApplied
       /\ LastApplied.results = results

\* C16: two applies of one manifest that both succeed report the same
\* resources, the second all as 'updated', the first as 'created' for a
\* resource the cluster did not hold and no earlier document named; and a 409
\* on create is followed by the patch of that document, an error being
\* returned only after an API call that failed otherwise.
C16_SecondApplyUpdates ==
    /\ (Len(applied) = 2 /\ applied[1].status = "success" /\ applied[2].status = "success")
       => /\ Len(applied[1].results) = Len(applied[2].results)
          /\ \A j \in 1..Len(applied[1].results) :
                /\ applied[2].results[j].resource = applied[1].results[j].resource
                /\ applied[2].results[j].action = "updated"
                /\ (/\ applied[1].results[j].resource \notin store0
                    /\ \A k \in 1..(j - 1) :
                          applied[1].results[k].resource # applied[1].results[j].resource)
                   => applied[1].results[j].action = "created"
    /\ \A i \in 1..Len(attempts) :
          attempts[i].answer = "conflict"
          => \/ i = Len(attempts) /\ apc = "patch"
             \/ /\ i < Len(attempts)
                /\ attempts[i + 1].op = "patch"
                /\ attempts[i + 1].doc = attempts[i].doc

C16_Witness ==
    /\ store0 = {}
    /\ manifest = <<[kind |-> "Deployment", name |-> "web"]>>
    /\ Len(applied) = 2
    /\ applied[1].status = "success"
    /\ applied[1].results[1].action = "created"
    /\ applied[2].status = "success"
    /\ applied[2].results[1].action = "updated"
    /\ attempts = <<[op |-> "create", doc |-> 1, answer |-> "conflict"],
                    [op |-> "patch", doc |-> 1, answer |-> "ok"]>>

\* C17: a create or patch that failed with a non-conflict error is the last
\* API call of the apply, which has returned; no call other than create and
\* patch is issued, and no resource the cluster held or the apply created is
\* gone.
C17_FailureAbortsWithoutRollback ==
    /\ \A i \in 1..Len(attempts) :
          /\ attempts[i].op \in {"create", "patch"}
          /\ attempts[i].answer = "fail" => (i = Len(attempts) /\ apc = "done")
          /\ (attempts[i].op = "create" /\ attempts[i].answer = "ok")
                => Resource(manifest[attempts[i].doc]) \in store
    /\ store0 \subseteq store
    /\ \A j \in 1..Len(results) : results[j].resource \in store

C17_Witness ==
    /\ apc = "done"
    /\ manifest = <<[kind |-> "Deployment", name |-> "web"],
                    [kind |-> "Service", name |-> "web"],
                    [kind |-> "Service", name |-> "web"]>>
    /\ store0 = {}
    /\ attempts = <<[op |-> "create", doc |-> 1, answer |-> "ok"],
                    [op |-> "create", doc |-> 2, answer |-> "fail"]>>
    /\ store = {<<"Deployment", "web">>}
    /\ LastApplied.status = "error"

\* The Deployment and Service documents of the manifest, in document order.
AppliedDocs == SelectSeq(manifest, LAMBDA d : d.kind \in {"Deployment", "Service"})

C19_TaskStatusTransitions ==
    [][/\ Len(running_tasks') >= Len(running_tasks)
       /\ \A i \in 1..Len(running_tasks') :
            IF i > Len(running_tasks)
            THEN running_tasks'[i] = "processing"
            ELSE \/ running_tasks'[i] = running_tasks[i]
                 \/ /\ running_tasks[i] = "processing"
                    /\ running_tasks'[i] = "completed"
                 \/ /\ running_tasks[i] = "processing"
                    /\ running_tasks'[i] = "cancelled"
                    /\ shut']_vars

\* C20: the history only grows at its end: every step leaves the entries it
\* held in place and unchanged.
C20_HistoryIsAppendOnly ==
    [][/\ Len(conversation_history') >= Len(conversation_history)
       /\ SubSeq(conversation_history', 1, Len(conversation_history))
            = conversation_history]_vars

C20_Witness ==
    /\ shut
    /\ Len(conversation_history) = 2
    /\ conversation_history[1].function = "list_clusters"
    /\ conversation_history[2].function = "switch_cluster"
    /\ tpc = "idle"

\* C21: every invocation of an operation through the wrapper appends exactly
\* one entry to the history: the step in which sync_wrapper returns after
\* execute_function makes the history one entry longer, and every step that
\* changes the history (a wrapper's return) makes it one entry longer.
WrapperReturns == pc[Main] = "done" /\ pc'[Main] = "idle"

C21_OneEntryPerInvocation ==
    [][ /\ WrapperReturns =>
            Len(conversation_history') = Len(conversation_history) + 1
        /\ conversation_history' # conversation_history =>
            Len(conversation_history') = Len(conversation_history) + 1 ]_vars

\* C22: every result execute_function returns for an initialized agent and a
\* catalog operation carries the operation's name and a timestamp.
C22_ResultCarriesNameAndTimestamp ==
    \A t \in Threads :
        pc[t] = "done" /\ Dispatched(t) /\ req[t].fn \in CatalogNames =>
            /\ result[t].function = req[t].fn
            /\ result[t].timestamp

\* C23: a status export reports as running-task count the number of tasks in
\* status processing and as history count the length of the history; when
\* every started process_user_message has returned, the count it reports is 0.
Processing == {i \in 1..Len(running_tasks) : running_tasks[i] = "processing"}

C23_StatusExportCounts ==
    [][exported' # exported =>
        /\ exported'.running_tasks = Cardinality(Processing')
        /\ exported'.total_conversations = Len(conversation_history')
        /\ tpc' = "idle" => exported'.running_tasks = 0]_vars

C23_Witness ==
    /\ tpc = "idle"
    /\ Len(running_tasks) > 0
    /\ Len(conversation_history) > 0
    /\ exported = get_agent_status
    /\ exported.running_tasks = 0

\* C24: a switch_cluster to a registered cluster whose probe fails returns
\* success, and the active cluster stays the requested one.
ProbeFailed(t) ==
    pc[t] = "done" /\ req[t].fn = "switch_cluster" /\ probed[t] = "failed"

C24_FailedProbeStillSwitches ==
    \A t \in Threads :
        ProbeFailed(t) =>
            /\ result[t].status = "success"
            /\ result[t].cluster = req[t].cluster
            /\ current_cluster = req[t].cluster

C24_Witness ==
    /\ ProbeFailed(Main)
    /\ Registered(req[Main].cluster)
    /\ req[Main].cluster # kubeconfig.active
    /\ result[Main].status = "success"
    /\ current_cluster = req[Main].cluster

\* C25: the success result of a switch_cluster whose probe failed has a
\* warning field, and the result of one whose probe answered has none.
C25_FailedProbeGivesWarning ==
    \A t \in Threads :
        pc[t] = "done" /\ req[t].fn = "switch_cluster" /\ result[t].status = "success" =>
            (probed[t] = "failed" <=> "warning" \in DOMAIN result[t])

\* The positions inside switch_cluster, and those of an operation after its
\* cluster test.
SwitchPcs == {"sw_check", "sw_load", "sw_assign", "sw_probe"}
OperationPcs == {"load", "docs", "client", "call", "call2", "ret"}

\* C26: after initialization the active cluster changes only in
\* switch_cluster's assignment, and an invocation enters switch_cluster only
\* as a switch_cluster call or as an operation given a cluster other than the
\* active one: list_clusters, a status call and an operation given no cluster
\* or the active one leave current_cluster as it is.
C26_ActiveClusterChangesOnlyInSwitch ==
    [][initialized =>
        /\ current_cluster' # current_cluster =>
              \E t \in Threads : pc[t] = "sw_assign" /\ pc'[t] = "sw_probe"
        /\ \A t \in Threads :
              pc'[t] \in SwitchPcs /\ pc[t] \notin SwitchPcs =>
                \/ req'[t].fn = "switch_cluster"
                \/ /\ req[t].fn \in ResourceOps
                   /\ req[t].cluster \notin {None, current_cluster}]_vars

C26_Witness ==
    /\ pc[Main] = "done"
    /\ req[Main].fn \in ResourceOps
    /\ req[Main].cluster = current_cluster
    /\ current_cluster # kubeconfig.active
    /\ Called(Main)
    /\ result[Main].status = "error"
    /\ exported.agents = <<get_status>>

\* C27: after initialization the registered clusters and their listing order
\* never change.
C27_RegistryIsFixed ==
    [][initialized => ClusterKeys' = ClusterKeys]_vars

C27_Witness ==
    /\ initialized
    /\ pc[Main] = "done"
    /\ req[Main].fn \in ResourceOps
    /\ Switched(Main)
    /\ Called(Main)
    /\ current_cluster = Contexts[2]
    /\ kubeconfig.active = Contexts[1]
    /\ ClusterKeys = Contexts
    /\ exported.agents = <<get_status>>

\* C29: an operation given a cluster that is not registered returns the
\* switch's not-found error, issues no API call and leaves the active cluster
\* as it is.
UnknownCluster(t) ==
    /\ Dispatched(t)
    /\ req[t].fn \in ResourceOps
    /\ ~BindError(req[t])
    /\ req[t].cluster # None
    /\ ~Registered(req[t].cluster)

C29_UnknownClusterIsRefused ==
    [][\A t \in Threads :
        UnknownCluster(t)' =>
            /\ ~Called(t)'
            /\ probed'[t] = "no"
            /\ pc'[t] = "done" =>
                  /\ result'[t].status = "error"
                  /\ result'[t].message = "not_found"
                  /\ result'[t].items = ClusterKeys'
            /\ UnknownCluster(t) => current_cluster' = current_cluster]_vars

C29_Witness ==
    /\ UnknownCluster(Main)
    /\ pc[Main] = "done"
    /\ req[Main].cluster = Ghost
    /\ result[Main] = Metadata(req[Main].fn, NotFoundResult)
    /\ ~Called(Main)
    /\ current_cluster = kubeconfig.active

\* C30: an operation given the active cluster, or none, does not invoke
\* switch_cluster: from its cluster test it goes on to load the context and to
\* its API call, and no probe is made.
C30_NoSwitchForActiveCluster ==
    [][\A t \in Threads :
        /\ (/\ pc[t] = "check"
            /\ pc'[t] # "check"
            /\ req[t].cluster \in {None, current_cluster})
           => pc'[t] = "load" /\ probed'[t] = "no"
        /\ pc[t] \in OperationPcs /\ probed[t] = "no"
           => pc'[t] \notin SwitchPcs /\ probed'[t] = "no"]_vars

C30_Witness ==
    /\ pc[Main] = "done"
    /\ req[Main].fn \in ResourceOps
    /\ req[Main].cluster = current_cluster
    /\ probed[Main] = "no"
    /\ Called(Main)
    /\ lastCall[Main].cur = req[Main].cluster
    /\ result[Main].status = "success"

\* C28: every invocation of an operation eventually returns (a call the
\* cluster does not answer is cut off and the invocation returns an error).
C28_EveryInvocationReturns ==
    \A t \in Threads : InFlight(t) ~> pc[t] = "done"

\* C33: after a successful initialization the active cluster is a registered
\* cluster, in every state.
C33_ActiveClusterIsRegistered ==
    initialized => Registered(current_cluster)

C33_Witness ==
    /\ initialized
    /\ pc[Main] = "done"
    /\ req[Main].fn = "switch_cluster"
    /\ Registered(req[Main].cluster)
    /\ req[Main].cluster # current_cluster
    /\ result[Main].status = "error"
    /\ Registered(current_cluster)

\* C37: a switch_cluster that returns an error has not changed the active
\* cluster; one that returns success for a name leaves the active cluster and
\* the loaded context at that name; and the context is loaded before the
\* active cluster is assigned.
SwitchReturns(t, status) ==
    /\ initialized
    /\ ThreadStep(t)
    /\ req'[t].fn = "switch_cluster"
    /\ pc'[t] = "done"
    /\ result'[t].status = status

C37_SwitchIsAllOrNothing ==
    [][\A t \in Threads :
        /\ SwitchReturns(t, "error") =>
              /\ current_cluster' = current_cluster
              /\ pc[t] \notin {"sw_assign", "sw_probe"}
        /\ SwitchReturns(t, "success") =>
              /\ current_cluster' = req'[t].cluster
              /\ loaded' = req'[t].cluster
        /\ pc[t] = "sw_assign" /\ pc'[t] = "sw_probe" =>
              loaded = req[t].cluster]_vars

C37_Witness ==
    /\ pc[Main] = "done"
    /\ req[Main].fn = "switch_cluster"
    /\ req[Main].cluster # kubeconfig.active
    /\ result[Main].status = "success"
    /\ current_cluster = req[Main].cluster
    /\ loaded = req[Main].cluster

\* An operation given a registered cluster has returned.
ExplicitReturned(t) ==
    /\ Dispatched(t)
    /\ pc[t] = "done"
    /\ req[t].fn \in ResourceOps
    /\ ~BindError(req[t])
    /\ Registered(req[t].cluster)

\* The operation returned the error of its switch_cluster, whose load of the
\* context raised: the dict of switch_cluster's except clause has no 'cluster'.
SwitchRaised(t) ==
    /\ result[t].status = "error"
    /\ result[t].message = "exception"
    /\ result[t].cluster = None

\* C34 as stated: one caller at a time, an operation given a registered
\* cluster leaves that cluster active when it returns.
C34_ExplicitClusterStaysActive ==
    \A t \in Threads : ExplicitReturned(t) => current_cluster = req[t].cluster

\* C34 amended: it leaves that cluster active when it returns unless its switch
\* failed to load the context, whether its API call succeeded or failed; and
\* the active cluster then changes only in the next switch's assignment.
C34_ExplicitClusterStaysActiveIfSwitched ==
    [][/\ \A t \in Threads :
            ExplicitReturned(t)' /\ ~SwitchRaised(t)' =>
                current_cluster' = req'[t].cluster
       /\ initialized /\ current_cluster' # current_cluster =>
            \E t \in Threads : pc[t] = "sw_assign"]_vars

C34_Witness ==
    /\ ExplicitReturned(Main)
    /\ req[Main].cluster # kubeconfig.active
    /\ Switched(Main)
    /\ apiFailed[Main]
    /\ result[Main].status = "error"
    /\ current_cluster = req[Main].cluster

\* C35: completed and cancelled are terminal: a task that is cancelled or
\* completed keeps that status, also when its invocation returns later.
C35_CancelledStaysCancelled ==
    [][\A i \in 1..Len(running_tasks) :
        running_tasks[i] \in {"completed", "cancelled"} =>
            running_tasks'[i] = running_tasks[i]]_vars

\* C38: one caller at a time, whenever an operation issues an API call the
\* context its client is bound to is the active cluster, from the first
\* operation after initialization on.
C38_CallsGoToActiveCluster ==
    \A t \in Threads : Called(t) => lastCall[t].ctx = lastCall[t].cur

\* C39: the catalog's names are the names execute_function dispatches, the
\* parameters the catalog marks required are the handler's parameters without
\* default, and a catalog operation called with its required parameters and no
\* other is dispatched to its handler.
Advertised(t) ==
    /\ Dispatched(t)
    /\ req[t].fn \in CatalogNames
    /\ req[t].missing = None
    /\ ~req[t].unexpected

C39_CatalogMatchesDispatch ==
    /\ CatalogNames = function_map
    /\ \A fn \in CatalogNames : Required(fn) = SignatureRequired(fn)
    /\ \A t \in Threads :
          Advertised(t) /\ pc[t] = "done" =>
              /\ result[t].function = req[t].fn
              /\ result[t].message \notin
                    {"unknown_function", "missing_argument", "unexpected_argument"}

C39_Witness ==
    /\ Advertised(Main)
    /\ pc[Main] = "done"
    /\ req[Main].fn = "scale_deployment"
    /\ Called(Main)
    /\ result[Main].status = "success"
    /\ result[Main].function = "scale_deployment"

\* C31: restart_deployment of a deployment the cluster does not hold returns
\* an error and issues no patch; of a deployment it holds (the read answered
\* it), it puts the time of the restart into the restartedAt annotation,
\* whatever was there, and issues exactly one patch, whose body has it.
C31_RestartPatchesOnceOrNotAtAll ==
    rpc = "done" =>
        IF ~body.exists
        THEN restarted.status = "error" /\ patches = <<>>
        ELSE /\ Len(patches) = 1
             /\ patches[1].annotations.restartedAt = clock - 1
             /\ ~patches[1].annotations.isNone
             /\ restarted.status = "success" => dstore[rname] = patches[1]

C31_Witness ==
    /\ rpc = "done"
    /\ clock = 3
    /\ rname = "web"
    /\ restarted.status = "success"
    /\ Len(patches) = 1
    /\ dstore["web"].annotations.restartedAt = 2
    /\ dstore["web"].annotations.other
    /\ ~dstore["db"].exists

\* C32: a container's ready flag is true exactly when the pod has a status
\* entry of that container's name that reports ready; a pod without status
\* data gives ready = false for every container, and building the list does
\* not fail.
ReportsReady(name) ==
    /\ ~pod.container_statuses.isNone
    /\ \E i \in 1..Len(pod.container_statuses.items) :
          /\ pod.container_statuses.items[i].name = name
          /\ pod.container_statuses.items[i].ready

C32_ReadyIffStatusReportsReady ==
    pod_info.built =>
        /\ ~pod_info.raised
        /\ Len(pod_info.containers) = Len(pod.containers)
        /\ \A j \in 1..Len(pod.containers) :
              /\ pod_info.containers[j].name = pod.containers[j]
              /\ pod_info.containers[j].ready <=> ReportsReady(pod.containers[j])

C32_Witness ==
    /\ pod_info.built
    /\ pod.container_statuses.isNone
    /\ Len(pod.containers) = 2
    /\ \A j \in 1..2 : ~pod_info.containers[j].ready

\* C36: for every limit >= 0, get_recent_history(limit) returns the last
\* min(limit, length) entries of the history in their order, so never more
\* than limit entries.
Min(a, b) == IF a < b THEN a ELSE b

C36_RecentHistoryIsLastEntries ==
    limit >= 0 =>
        LET n == Len(conversation_history)
            k == Min(limit, n)
        IN /\ Len(recent) = k
           /\ Len(recent) <= limit
           /\ recent = SubSeq(conversation_history, n - k + 1, n)

====
